---- MODULE Spec2Model ----
(***************************************************************************)
(* Model of src/tableau_mcp_server.py: the TableauServerMCP client (sign-in *)
(* and catalog requests over its session) and the MCP tool dispatcher       *)
(* handle_call_tool, together with the Tableau server they talk to.         *)
(*                                                                          *)
(* Text is modelled as a sequence of one-character strings so that          *)
(* str.lower() and the `in` operator are computed, not assumed.  Python's   *)
(* None is the string "None" in slots that hold opaque strings.             *)
(***************************************************************************)
EXTENDS Integers, Sequences, FiniteSets, TLC

VARIABLES
    token_name,   \* self.token_name: the configured PAT name, or None
    token_value,  \* self.token_value: the configured PAT secret, or None
    auth_token,   \* self.auth_token
    site_uuid,    \* self.site_uuid
    session,      \* self.session: TRUE once initialize_session has run
    faults,       \* environment: may the server and the network misbehave
    catalog,      \* environment: the content published on the server
    request,      \* the tool call in flight: [name, arguments], or NoRequest
    response,     \* what the last tool call gave back to the protocol layer
    call,         \* history: the client calls made by the last tool call
    prev          \* history: what the tool call before the last one was

vars == <<token_name, token_value, auth_token, site_uuid, session,
          faults, catalog, request, response, call, prev>>

None == "None"

-----------------------------------------------------------------------------
(* Bounds of the model.                                                     *)

MaxWorkbooks == 2
MaxDataSources == 2

-----------------------------------------------------------------------------
(* Text.                                                                    *)

LowerChar(c) ==
    CASE c = "A" -> "a"
      [] c = "B" -> "b"
      [] c = "C" -> "c"
      [] OTHER -> c

\* str.lower()
Lower(s) == [i \in 1..Len(s) |-> LowerChar(s[i])]

\* `sub in s` on two str
Contains(sub, s) ==
    \E i \in 0..(Len(s) - Len(sub)) : SubSeq(s, i + 1, i + Len(sub)) = sub

-----------------------------------------------------------------------------
(* XML elements: a tag, an attribute map and the child elements in document *)
(* order (xml.etree.ElementTree.Element).                                   *)

Elem(tag, attrs, children) == [tag |-> tag, attrs |-> attrs, children |-> children]

NoAttrs == <<>>

\* Element.get(key, default)
Get(e, key, default) == IF key \in DOMAIN e.attrs THEN e.attrs[key] ELSE default

\* every element below a list of siblings, in document order
RECURSIVE DescendantsOf(_)
DescendantsOf(children) ==
    IF children = <<>> THEN <<>>
    ELSE <<Head(children)>> \o DescendantsOf(Head(children).children)
                            \o DescendantsOf(Tail(children))

\* Element.findall('.//tag'): the descendants with that tag (never e itself)
FindAll(e, tag) == SelectSeq(DescendantsOf(e.children), LAMBDA d : d.tag = tag)

\* Element.find('.//tag') is not None
Has(e, tag) == FindAll(e, tag) # <<>>

\* Element.find('.//tag'), where Has(e, tag)
Find(e, tag) == Head(FindAll(e, tag))

\* Element.find('tag') is not None: direct children only
HasChild(e, tag) == SelectSeq(e.children, LAMBDA d : d.tag = tag) # <<>>

\* Element.find('tag'), where HasChild(e, tag)
FindChild(e, tag) == Head(SelectSeq(e.children, LAMBDA d : d.tag = tag))

-----------------------------------------------------------------------------
(* The server: what is published, and the documents it serves.              *)

Ab == <<"A", "b">>
ab == <<"a", "b">>
abc == <<"a", "b", "c">>
Bc == <<"B", "c">>
cc == <<"c">>

WorkbookId(i) == <<"wb", i>>
UnknownId == <<"wb", 0>>

View(i, name) ==
    Elem("view", [id |-> <<"v", i>>, name |-> name, contentUrl |-> "url",
                  viewUrlName |-> "sheet"], <<>>)

\* The workbooks a site may hold: attributes (the id is given on publishing),
\* nested elements and views.  Each optional attribute and nested element is
\* missing from some and present in others.
WorkbookPool ==
    { [attrs |-> [name |-> Ab], children |-> <<>>, views |-> <<>>],
      [attrs |-> [name |-> abc, description |-> Ab, size |-> "10",
                  createdAt |-> "d1", updatedAt |-> "d2"],
       children |-> <<Elem("project", [id |-> "p1", name |-> "P"], <<>>),
                      Elem("owner", [id |-> "u1", name |-> "O"], <<>>)>>,
       views |-> <<View(1, ab), View(2, cc)>>],
      [attrs |-> [name |-> ab, description |-> cc],
       children |-> <<Elem("owner", [id |-> "u1", name |-> "O"], <<>>)>>,
       views |-> <<View(1, ab)>>],
      [attrs |-> [name |-> cc, size |-> "10"],
       children |-> <<Elem("project", [id |-> "p1"], <<>>)>>,
       views |-> <<>>] }

DataSourcePool ==
    { [attrs |-> [name |-> ab], children |-> <<>>],
      [attrs |-> [name |-> Bc, description |-> ab, type |-> "sqlserver",
                  updatedAt |-> "d2"],
       children |-> <<Elem("project", [id |-> "p1", name |-> "P"], <<>>)>>] }

SeqsUpTo(S, n) == UNION {[1..k -> S] : k \in 0..n}

Catalogs ==
    [workbooks : SeqsUpTo(WorkbookPool, MaxWorkbooks),
     datasources : SeqsUpTo(DataSourcePool, MaxDataSources)]

\* The site used when the server and the network may misbehave: two
\* workbooks whose names differ only in case, and one that contains them.
FaultCatalogs ==
    {c \in Catalogs :
        /\ Len(c.workbooks) = 2
        /\ c.workbooks[1].attrs.name = Ab
        /\ c.workbooks[2].attrs.name = abc
        /\ Len(c.datasources) = 1
        /\ c.datasources[1].attrs.name = Bc}

WorkbookElem(i) ==
    Elem("workbook", [id |-> WorkbookId(i)] @@ catalog.workbooks[i].attrs,
         catalog.workbooks[i].children)

DataSourceElem(i) ==
    Elem("datasource", [id |-> <<"ds", i>>] @@ catalog.datasources[i].attrs,
         catalog.datasources[i].children)

TsResponse(children) == Elem("tsResponse", NoAttrs, children)

\* A catalog endpoint: the collection or item asked for.
Endpoint(op, id) == [op |-> op, id |-> id]

\* The document the server holds for an endpoint (none for an unknown id).
ServerDocs(ep) ==
    CASE ep.op = "workbooks" ->
           {TsResponse(<<Elem("workbooks", NoAttrs,
                [i \in 1..Len(catalog.workbooks) |-> WorkbookElem(i)])>>)}
      [] ep.op = "datasources" ->
           {TsResponse(<<Elem("datasources", NoAttrs,
                [i \in 1..Len(catalog.datasources) |-> DataSourceElem(i)])>>)}
      [] ep.op = "workbook" ->
           {TsResponse(<<WorkbookElem(i)>>) :
                i \in {j \in 1..Len(catalog.workbooks) : WorkbookId(j) = ep.id}}
      [] ep.op = "views" ->
           {TsResponse(<<Elem("views", NoAttrs, catalog.workbooks[i].views)>>) :
                i \in {j \in 1..Len(catalog.workbooks) : WorkbookId(j) = ep.id}}

-----------------------------------------------------------------------------
(* HTTP responses as the client sees them: a transport failure, or a status *)
(* with a content type and a body.  A body is empty, text that is neither   *)
(* XML nor JSON, an XML document, or a JSON value (truthy or falsy, never a *)
(* JSON string).                                                            *)

EmptyBody == [t |-> "empty", root |-> TsResponse(<<>>), truthy |-> FALSE]
GarbageBody == [t |-> "garbage", root |-> TsResponse(<<>>), truthy |-> TRUE]
XmlBody(root) == [t |-> "xml", root |-> root, truthy |-> TRUE]
JsonBody(b) == [t |-> "json", root |-> TsResponse(<<>>), truthy |-> b]

Http(status, ctype, body) ==
    [kind |-> "http", status |-> status, ctype |-> ctype, body |-> body]

TransportFailure ==
    [kind |-> "transport", status |-> 0, ctype |-> "", body |-> EmptyBody]

Tokens == {"T1", "T2"}
SiteIds == {"S1"}

\* <credentials token=.. ><site id=.. /></credentials>; "absent" leaves the
\* attribute out, "noelem" leaves the site element out.
CredentialsElem(tok, site) ==
    Elem("credentials",
         IF tok = "absent" THEN NoAttrs ELSE [token |-> tok],
         CASE site = "noelem" -> <<>>
           [] site = "absent" -> <<Elem("site", [contentUrl |-> "s"], <<>>)>>
           [] OTHER -> <<Elem("site", [id |-> site, contentUrl |-> "s"], <<>>)>>)

\* What a sign-in request may be answered with.
SigninResponses ==
    {Http(200, "xml", XmlBody(TsResponse(<<CredentialsElem(t, s)>>))) :
        t \in Tokens, s \in SiteIds}
    \cup
    IF ~faults THEN {}
    ELSE {TransportFailure}
         \cup {Http(st, "xml", GarbageBody) : st \in {200, 201, 401}}
         \cup {Http(200, "xml", XmlBody(TsResponse(<<>>)))}
         \cup {Http(200, "xml", XmlBody(TsResponse(<<CredentialsElem(t, s)>>))) :
                 t \in Tokens \cup {"absent"},
                 s \in SiteIds \cup {"absent", "noelem"}}

\* What a catalog request may be answered with.
CatalogResponses(ep) ==
    {Http(200, "xml", XmlBody(d)) : d \in ServerDocs(ep)}
    \cup (IF ServerDocs(ep) = {} THEN {Http(404, "xml", GarbageBody)} ELSE {})
    \cup
    IF ~faults THEN {}
    ELSE {TransportFailure, Http(401, "xml", GarbageBody)}
         \cup {Http(201, "xml", XmlBody(d)) : d \in ServerDocs(ep)}
         \cup {Http(200, "xml", b) :
                 b \in {EmptyBody, GarbageBody, XmlBody(TsResponse(<<>>))}}
         \cup {Http(200, "json", b) :
                 b \in {JsonBody(TRUE), JsonBody(FALSE), GarbageBody}}
         \cup {Http(200, "other", XmlBody(d)) : d \in ServerDocs(ep)}

-----------------------------------------------------------------------------
(* TableauServerMCP: the client.  A session state is the pair the client    *)
(* mutates; the operators below give, for a state and the server's answer,  *)
(* the state after and the value returned.                                  *)

Sess(tok, site) == [auth_token |-> tok, site_uuid |-> site]

\* truth value of a str-or-None slot
Truthy(v) == v # None /\ v # ""

\* (mutant) the credential pair is not looked at
CredentialsNeverMissing == FALSE

\* `not self.token_name or not self.token_value`
CredentialsMissing == ~Truthy(token_name) \/ ~Truthy(token_value)

\* (mutant) the failure paths drop the session's token and site
SigninFailedClears(s) == [s |-> Sess(None, None), ret |-> "False"]

\* authenticate's failure paths (a status other than 200, or an exception
\* under the try): logged, False returned, the session untouched
SigninFailed(s) == [s |-> s, ret |-> "False"]

\* (mutant) a token already held is kept
StoreCredentialsKeepsToken(s, credentials) ==
    LET s1 == IF Truthy(s.auth_token) THEN s
              ELSE [s EXCEPT !.auth_token = Get(credentials, "token", None)]
    IN IF HasChild(credentials, "site")
       THEN [s1 EXCEPT !.site_uuid = Get(FindChild(credentials, "site"), "id", None)]
       ELSE s1

\* authenticate's extraction: the token attribute always, the site id when
\* there is a site element
StoreCredentials(s, credentials) ==
    LET s1 == [s EXCEPT !.auth_token = Get(credentials, "token", None)]
    IN IF HasChild(credentials, "site")
       THEN [s1 EXCEPT !.site_uuid = Get(FindChild(credentials, "site"), "id", None)]
       ELSE s1

\* authenticate, from the POST on: the session after and the value returned
\* for the sign-in response r.
Authenticate(s, r) ==
    IF r.kind = "transport"
    THEN SigninFailed(s)
    ELSE IF r.status = 200
    THEN IF r.body.t # "xml"
         THEN SigninFailed(s)
         ELSE IF Has(r.body.root, "credentials")
         THEN [s |-> StoreCredentials(s, Find(r.body.root, "credentials")),
               ret |-> "True"]
         ELSE [s |-> s, ret |-> "True"]
    ELSE SigninFailed(s)

\* how a sign-in response reads to the client
SigninClass(r) ==
    CASE r.kind = "transport" -> "transport"
      [] r.kind = "http" /\ r.status # 200 -> "status"
      [] r.kind = "http" /\ r.status = 200 /\ r.body.t # "xml" -> "unparsable"
      [] OTHER -> "parsed"

\* the token a sign-in response carries, "-" when it carries none
IssuedToken(r) ==
    IF SigninClass(r) = "parsed" /\ Has(r.body.root, "credentials")
    THEN Get(Find(r.body.root, "credentials"), "token", "-")
    ELSE "-"

\* history record of one call of authenticate
AuthEv(called, sent, class, issued, pre, post, ret) ==
    [called |-> called, sent |-> sent, class |-> class, issued |-> issued,
     pre |-> pre, post |-> post, ret |-> ret]

NoAuth(s) == AuthEv(FALSE, FALSE, "-", "-", s, s, "-")

\* authenticate: every outcome from session state s.  Without the credential
\* pair it raises ValueError before anything is sent.
AuthenticateOutcomes(s) ==
    IF CredentialsMissing
    THEN {[s |-> s, ret |-> "raise",
           ev |-> AuthEv(TRUE, FALSE, "-", "-", s, s, "raise")]}
    ELSE {LET a == Authenticate(s, r)
          IN [s |-> a.s, ret |-> a.ret,
              ev |-> AuthEv(TRUE, TRUE, SigninClass(r), IssuedToken(r), s, a.s,
                            a.ret)] :
            r \in SigninResponses}

\* A value handed up by make_api_request: nothing, the body as text, decoded
\* JSON, or an exception on its way up.
Nothing == [kind |-> "none", body |-> EmptyBody, exc |-> ""]
Text(body) == [kind |-> "text", body |-> body, exc |-> ""]
Json(body) == [kind |-> "json", body |-> body, exc |-> ""]
Raised(exc) == [kind |-> "raise", body |-> EmptyBody, exc |-> exc]

\* make_api_request, from the request on: the value returned for response r.
\* response.json() raises on a content type that is not JSON and on a body
\* that is not JSON; the handler around the request turns that into None.
ApiReturn(r) ==
    IF r.kind = "transport"
    THEN Nothing
    ELSE IF r.status \in {200, 201}
    THEN IF r.ctype = "xml"
         THEN Text(r.body)
         ELSE IF r.ctype = "json" /\ r.body.t = "json"
         THEN Json(r.body)
         ELSE Nothing
    ELSE Nothing

CatalogClass(r) ==
    CASE r.kind = "transport" -> "transport"
      [] r.kind = "http" /\ r.status \notin {200, 201} -> "status"
      [] OTHER -> "success"

\* history record of one call of make_api_request
ApiEv(endpoint, held, auth, sent, hdr, site, class, ret, post) ==
    [endpoint |-> endpoint, held |-> held, auth |-> auth, sent |-> sent,
     hdrToken |-> hdr, urlSite |-> site, class |-> class, ret |-> ret,
     post |-> post]

\* (mutant) every request signs in first
NeedsSigninAlways(s) == TRUE

\* `if not self.auth_token:`
NeedsSignin(s) == ~Truthy(s.auth_token)

\* make_api_request: every outcome from session state s.
MakeApiRequestOutcomes(s, endpoint) ==
    LET held == Truthy(s.auth_token)
        auths == IF NeedsSignin(s)
                 THEN AuthenticateOutcomes(s)
                 ELSE {[s |-> s, ret |-> "-", ev |-> NoAuth(s)]}
    IN UNION {
         IF a.ret = "raise"
         THEN {[s |-> a.s, ret |-> Raised("ValueError"),
                ev |-> ApiEv(endpoint, held, a.ev, FALSE, None, None, "-",
                             Raised("ValueError"), a.s)]}
         ELSE {[s |-> a.s, ret |-> ApiReturn(r),
                ev |-> ApiEv(endpoint, held, a.ev, TRUE, a.s.auth_token,
                             a.s.site_uuid, CatalogClass(r), ApiReturn(r), a.s)] :
                 r \in CatalogResponses(endpoint)} :
         a \in auths }

-----------------------------------------------------------------------------
(* Catalog operations.                                                      *)

\* `not xml_response`
Falsy(p) ==
    CASE p.kind = "none" -> TRUE
      [] p.kind = "text" -> p.body.t = "empty"
      [] p.kind = "json" -> ~p.body.truthy
      [] OTHER -> FALSE

\* ET.fromstring(p): a tree for XML text, ParseError for any other text,
\* TypeError for a value that is not text.
FromString(p) ==
    CASE p.kind = "text" /\ p.body.t = "xml" -> "tree"
      [] p.kind = "text" /\ p.body.t # "xml" -> "ParseError"
      [] OTHER -> "TypeError"

\* What a catalog operation hands up: a list, a detail record, None, or an
\* exception on its way up.
List(records) == [kind |-> "list", val |-> records, exc |-> ""]
Detail(record) == [kind |-> "detail", val |-> <<record>>, exc |-> ""]
NoDetail == [kind |-> "none", val |-> <<>>, exc |-> ""]
Raise(exc) == [kind |-> "raise", val |-> <<>>, exc |-> exc]
Bool(v) == [kind |-> "bool", val |-> <<v>>, exc |-> ""]

\* (mutant) no default for a missing size
WorkbookRecordPlainGet(workbook) ==
    [id |-> Get(workbook, "id", None),
     name |-> Get(workbook, "name", None),
     description |-> Get(workbook, "description", <<>>),
     size |-> Get(workbook, "size", None),
     createdAt |-> Get(workbook, "createdAt", None),
     updatedAt |-> Get(workbook, "updatedAt", None),
     project |-> IF Has(workbook, "project")
                 THEN Get(Find(workbook, "project"), "name", None)
                 ELSE "Unknown",
     owner |-> IF Has(workbook, "owner")
               THEN Get(Find(workbook, "owner"), "name", None)
               ELSE "Unknown"]

\* the record list_workbooks builds for one workbook element
WorkbookRecord(workbook) ==
    [id |-> Get(workbook, "id", None),
     name |-> Get(workbook, "name", None),
     description |-> Get(workbook, "description", <<>>),
     size |-> Get(workbook, "size", "0"),
     createdAt |-> Get(workbook, "createdAt", None),
     updatedAt |-> Get(workbook, "updatedAt", None),
     project |-> IF Has(workbook, "project")
                 THEN Get(Find(workbook, "project"), "name", None)
                 ELSE "Unknown",
     owner |-> IF Has(workbook, "owner")
               THEN Get(Find(workbook, "owner"), "name", None)
               ELSE "Unknown"]

\* the record list_data_sources builds for one datasource element
DataSourceRecord(ds) ==
    [id |-> Get(ds, "id", None),
     name |-> Get(ds, "name", None),
     description |-> Get(ds, "description", <<>>),
     type |-> Get(ds, "type", None),
     createdAt |-> Get(ds, "createdAt", None),
     updatedAt |-> Get(ds, "updatedAt", None),
     project |-> IF Has(ds, "project")
                 THEN Get(Find(ds, "project"), "name", None)
                 ELSE "Unknown"]

ViewRecord(view) ==
    [id |-> Get(view, "id", None),
     name |-> Get(view, "name", None),
     contentUrl |-> Get(view, "contentUrl", None),
     viewUrlName |-> Get(view, "viewUrlName", None)]

\* list_workbooks, from the value p that make_api_request returned
ParseWorkbooks(p) ==
    CASE p.kind = "raise" -> Raise(p.exc)
      [] p.kind # "raise" /\ Falsy(p) -> List(<<>>)
      [] OTHER ->
           CASE FromString(p) = "tree" ->
                  LET found == FindAll(p.body.root, "workbook")
                  IN List([i \in 1..Len(found) |-> WorkbookRecord(found[i])])
             [] FromString(p) = "ParseError" -> List(<<>>)
             [] OTHER -> Raise("TypeError")

\* list_data_sources, from the value p that make_api_request returned
ParseDataSources(p) ==
    CASE p.kind = "raise" -> Raise(p.exc)
      [] p.kind # "raise" /\ Falsy(p) -> List(<<>>)
      [] OTHER ->
           CASE FromString(p) = "tree" ->
                  LET found == FindAll(p.body.root, "datasource")
                  IN List([i \in 1..Len(found) |-> DataSourceRecord(found[i])])
             [] FromString(p) = "ParseError" -> List(<<>>)
             [] OTHER -> Raise("TypeError")

\* get_workbook_details after both requests: the workbook element and the
\* value v that the views request returned
ParseDetails(workbook, v) ==
    CASE v.kind = "raise" -> Raise(v.exc)
      [] v.kind # "raise" /\ ~Falsy(v) /\ FromString(v) = "ParseError" -> NoDetail
      [] v.kind # "raise" /\ ~Falsy(v) /\ FromString(v) = "TypeError" ->
           Raise("TypeError")
      [] OTHER ->
           LET found == IF Falsy(v) THEN <<>> ELSE FindAll(v.body.root, "view")
               views == [i \in 1..Len(found) |-> ViewRecord(found[i])]
           IN Detail([id |-> Get(workbook, "id", None),
                      name |-> Get(workbook, "name", None),
                      description |-> Get(workbook, "description", <<>>),
                      size |-> Get(workbook, "size", "0"),
                      views |-> views,
                      viewCount |-> Len(views)])

\* history record of one catalog operation (or of a direct authenticate)
OpEv(op, id, auth, api, ret) ==
    [op |-> op, id |-> id, auth |-> auth, api |-> api, ret |-> ret]

NoId == <<>>

\* list_workbooks: every outcome from session state s
ListWorkbooksOutcomes(s) ==
    {[s |-> o.s, ret |-> ParseWorkbooks(o.ret),
      ev |-> OpEv("list_workbooks", NoId, NoAuth(s), <<o.ev>>,
                  ParseWorkbooks(o.ret))] :
        o \in MakeApiRequestOutcomes(s, Endpoint("workbooks", NoId))}

\* list_data_sources: every outcome from session state s
ListDataSourcesOutcomes(s) ==
    {[s |-> o.s, ret |-> ParseDataSources(o.ret),
      ev |-> OpEv("list_data_sources", NoId, NoAuth(s), <<o.ev>>,
                  ParseDataSources(o.ret))] :
        o \in MakeApiRequestOutcomes(s, Endpoint("datasources", NoId))}

\* get_workbook_details(workbook_id): every outcome from session state s.
\* The views request is made only once the workbook element was found.
GetWorkbookDetailsOutcomes(s, workbook_id) ==
    UNION {
      LET p == o.ret
          early ==
            CASE p.kind = "raise" -> Raise(p.exc)
              [] p.kind # "raise" /\ Falsy(p) -> NoDetail
              [] p.kind # "raise" /\ ~Falsy(p) /\ FromString(p) = "TypeError" ->
                   Raise("TypeError")
              [] OTHER -> NoDetail
          nested == /\ p.kind # "raise" /\ ~Falsy(p) /\ FromString(p) = "tree"
                    /\ Has(p.body.root, "workbook")
      IN IF ~nested
         THEN {[s |-> o.s, ret |-> early,
                ev |-> OpEv("get_workbook_details", workbook_id, NoAuth(s),
                            <<o.ev>>, early)]}
         ELSE {LET ret == ParseDetails(Find(p.body.root, "workbook"), v.ret)
               IN [s |-> v.s, ret |-> ret,
                   ev |-> OpEv("get_workbook_details", workbook_id, NoAuth(s),
                               <<o.ev, v.ev>>, ret)] :
                 v \in MakeApiRequestOutcomes(o.s, Endpoint("views", workbook_id))} :
      o \in MakeApiRequestOutcomes(s, Endpoint("workbook", workbook_id)) }

-----------------------------------------------------------------------------
(* handle_call_tool: the tool dispatcher.                                   *)

\* A CallToolResult: the error flag and the text, kept as the template that
\* was filled (text), what it was filled with (arg) and the entries listed
\* (items, more).  exc names an exception leaving the handler instead.
Reply(isError, text, arg, items, more) ==
    [isError |-> isError, text |-> text, arg |-> arg, items |-> items,
     more |-> more, exc |-> ""]

Escape(exc) ==
    [isError |-> FALSE, text |-> "", arg |-> <<>>, items |-> <<>>,
     more |-> <<>>, exc |-> exc]

Out(s, result, ops) == [s |-> s, result |-> result, ops |-> ops]

\* arguments.get(key) is truthy
ArgTruthy(arguments, key) == key \in DOMAIN arguments /\ arguments[key] # <<>>

\* arguments.get("query", "")
ArgQuery(arguments) ==
    IF "query" \in DOMAIN arguments THEN arguments["query"] ELSE <<>>

TestConnection(s) ==
    {LET ops == <<OpEv("authenticate", NoId, a.ev, <<>>,
                       IF a.ret = "raise" THEN Raise("ValueError") ELSE Bool(a.ret))>>
     IN CASE a.ret = "raise" -> Out(a.s, Escape("ValueError"), ops)
          [] a.ret = "True" ->
               Out(a.s,
                   Reply(FALSE, "connected",
                         IF Truthy(a.s.auth_token) THEN <<"Present">>
                                                   ELSE <<"Missing">>,
                         <<>>, <<>>),
                   ops)
          [] OTHER -> Out(a.s, Reply(TRUE, "connect_failed", <<>>, <<>>, <<>>), ops) :
       a \in AuthenticateOutcomes(s)}

ListWorkbooksTool(s) ==
    {CASE o.ret.kind = "raise" -> Out(o.s, Escape(o.ret.exc), <<o.ev>>)
       [] o.ret.kind # "raise" /\ o.ret.val # <<>> ->
            Out(o.s, Reply(FALSE, "workbooks_found", <<>>, o.ret.val, <<>>), <<o.ev>>)
       [] OTHER -> Out(o.s, Reply(FALSE, "no_workbooks", <<>>, <<>>, <<>>), <<o.ev>>) :
       o \in ListWorkbooksOutcomes(s)}

ListDataSourcesTool(s) ==
    {CASE o.ret.kind = "raise" -> Out(o.s, Escape(o.ret.exc), <<o.ev>>)
       [] o.ret.kind # "raise" /\ o.ret.val # <<>> ->
            Out(o.s, Reply(FALSE, "datasources_found", <<>>, o.ret.val, <<>>), <<o.ev>>)
       [] OTHER -> Out(o.s, Reply(FALSE, "no_datasources", <<>>, <<>>, <<>>), <<o.ev>>) :
       o \in ListDataSourcesOutcomes(s)}

\* (mutant) a name that contains the given one matches
MatchingSubstring(workbooks, workbook_name) ==
    {i \in 1..Len(workbooks) :
        Contains(Lower(workbook_name), Lower(workbooks[i].name))}

\* next((wb for wb in workbooks if wb['name'].lower() == workbook_name.lower()), None):
\* the positions that match, of which the first is taken
Matching(workbooks, workbook_name) ==
    {i \in 1..Len(workbooks) : Lower(workbooks[i].name) = Lower(workbook_name)}

FirstMatch(workbooks, workbook_name) ==
    CHOOSE i \in Matching(workbooks, workbook_name) :
        \A j \in Matching(workbooks, workbook_name) : i <= j

\* the second half of the get_workbook_details branch, `if workbook_id:`,
\* for an id that is there (every listed workbook carries one)
DetailsById(s, workbook_id, ops) ==
    {CASE d.ret.kind = "raise" -> Out(d.s, Escape(d.ret.exc), ops \o <<d.ev>>)
       [] d.ret.kind = "detail" ->
            Out(d.s, Reply(FALSE, "workbook_details", <<>>, d.ret.val, <<>>),
                ops \o <<d.ev>>)
       [] OTHER ->
            Out(d.s, Reply(TRUE, "details_unavailable", <<>>, <<>>, <<>>),
                ops \o <<d.ev>>) :
       d \in GetWorkbookDetailsOutcomes(s, workbook_id)}

GetWorkbookDetailsTool(s, arguments) ==
    IF ArgTruthy(arguments, "workbook_name") /\ ~ArgTruthy(arguments, "workbook_id")
    THEN UNION {
           IF o.ret.kind = "raise"
           THEN {Out(o.s, Escape(o.ret.exc), <<o.ev>>)}
           ELSE IF Matching(o.ret.val, arguments["workbook_name"]) # {}
           THEN DetailsById(o.s,
                    o.ret.val[FirstMatch(o.ret.val, arguments["workbook_name"])].id,
                    <<o.ev>>)
           ELSE {Out(o.s,
                     Reply(TRUE, "workbook_not_found", arguments["workbook_name"],
                           <<>>, <<>>),
                     <<o.ev>>)} :
           o \in ListWorkbooksOutcomes(s) }
    ELSE IF ArgTruthy(arguments, "workbook_id")
    THEN DetailsById(s, arguments["workbook_id"], <<>>)
    ELSE {Out(s, Reply(TRUE, "need_name_or_id", <<>>, <<>>, <<>>), <<>>)}

\* (mutant) only the name is searched
SearchMatchesNameOnly(records, query) ==
    SelectSeq(records, LAMBDA x : Contains(query, Lower(x.name)))

\* [x for x in records if query in x['name'].lower() or query in x['description'].lower()]
SearchMatches(records, query) ==
    SelectSeq(records,
              LAMBDA x : \/ Contains(query, Lower(x.name))
                         \/ Contains(query, Lower(x.description)))

SearchContentTool(s, arguments) ==
    LET query == Lower(ArgQuery(arguments))
    IN UNION {
         IF w.ret.kind = "raise"
         THEN {Out(w.s, Escape(w.ret.exc), <<w.ev>>)}
         ELSE {IF d.ret.kind = "raise"
               THEN Out(d.s, Escape(d.ret.exc), <<w.ev, d.ev>>)
               ELSE LET matching_workbooks == SearchMatches(w.ret.val, query)
                        matching_data_sources == SearchMatches(d.ret.val, query)
                    IN IF matching_workbooks = <<>> /\ matching_data_sources = <<>>
                       THEN Out(d.s, Reply(FALSE, "no_content", query, <<>>, <<>>),
                                <<w.ev, d.ev>>)
                       ELSE Out(d.s,
                                Reply(FALSE, "search_results", query,
                                      matching_workbooks, matching_data_sources),
                                <<w.ev, d.ev>>) :
                 d \in ListDataSourcesOutcomes(w.s)} :
         w \in ListWorkbooksOutcomes(s) }

\* the try body of handle_call_tool
Dispatch(s, name, arguments) ==
    CASE name = "test_connection" -> TestConnection(s)
      [] name = "list_workbooks" -> ListWorkbooksTool(s)
      [] name = "list_data_sources" -> ListDataSourcesTool(s)
      [] name = "get_workbook_details" -> GetWorkbookDetailsTool(s, arguments)
      [] name = "search_content" -> SearchContentTool(s, arguments)
      [] OTHER -> {Out(s, Reply(TRUE, "unknown_tool", <<name>>, <<>>, <<>>), <<>>)}

\* (mutant) no except clause: the exception leaves the handler
ToolBoundaryNoCatch(result) == result

\* the except clause of handle_call_tool: whatever leaves the try body comes
\* back as an error-flagged result
ToolBoundary(result) ==
    IF result.exc # ""
    THEN Reply(TRUE, "error_executing", <<result.exc>>, <<>>, <<>>)
    ELSE result

-----------------------------------------------------------------------------
(* The state machine.                                                       *)

ToolNames ==
    {"test_connection", "list_workbooks", "list_data_sources",
     "get_workbook_details", "search_content", "export_workbook"}

AB == <<"A", "B">>
Ba == <<"B", "a">>

NameArgs == {AB, abc, <<"b">>}
IdArgs == {WorkbookId(1), UnknownId}
QueryArgs == {AB, cc, Ba}

ToolCall(name, arguments) == [name |-> name, arguments |-> arguments]

\* The tool calls a client may make.
Requests ==
    {ToolCall(n, <<>>) : n \in ToolNames}
    \cup {ToolCall("get_workbook_details", [workbook_name |-> n]) : n \in NameArgs}
    \cup {ToolCall("get_workbook_details", [workbook_id |-> i]) : i \in IdArgs}
    \cup {ToolCall("get_workbook_details", [workbook_name |-> n, workbook_id |-> i]) :
            n \in {<<>>, AB}, i \in {WorkbookId(2)}}
    \cup {ToolCall("search_content", [query |-> q]) : q \in QueryArgs}

NoRequest == ToolCall("", <<>>)
NoResponse == Escape("")
NoCall == [name |-> "", arguments |-> <<>>, pre |-> Sess(None, None), ops |-> <<>>]

Configured ==
    /\ token_name \in {None, "pat-name"}
    /\ token_value \in {None, "pat-secret"}
    /\ auth_token = None
    /\ site_uuid = None
    /\ session = FALSE
    /\ request = NoRequest
    /\ response = NoResponse
    /\ call = NoCall
    /\ prev = ""

\* A server and network that may fail in any way, over one site.
Init ==
    /\ Configured
    /\ faults = TRUE
    /\ catalog \in FaultCatalogs

\* A server that answers every request properly, over any site.
InitServing ==
    /\ Configured
    /\ faults = FALSE
    /\ catalog \in Catalogs

\* A client sends a tool call, having taken the result of the one before.
CallTool ==
    /\ request = NoRequest
    /\ \E req \in Requests : request' = req
    /\ response' = NoResponse
    /\ call' = NoCall
    /\ prev' = IF call.name = "test_connection" /\ response.text = "connected"
               THEN "test_connection" ELSE ""
    /\ UNCHANGED <<token_name, token_value, auth_token, site_uuid, session,
                   faults, catalog>>

\* handle_call_tool runs for the call in flight, start to return.
HandleCallTool ==
    /\ request # NoRequest
    /\ \E o \in Dispatch(Sess(auth_token, site_uuid), request.name, request.arguments) :
          /\ auth_token' = o.s.auth_token
          /\ site_uuid' = o.s.site_uuid
          /\ response' = ToolBoundary(o.result)
          /\ call' = [name |-> request.name, arguments |-> request.arguments,
                      pre |-> Sess(auth_token, site_uuid), ops |-> o.ops]
    /\ session' = TRUE
    /\ request' = NoRequest
    /\ UNCHANGED <<token_name, token_value, faults, catalog, prev>>

Next == CallTool \/ HandleCallTool

Spec == Init /\ [][Next]_vars

SpecServing == InitServing /\ [][Next]_vars

-----------------------------------------------------------------------------
(* Properties.  `call` and `response` describe the last tool call that has  *)
(* returned; Returned says there is one.                                    *)

Returned == call.name # ""

KnownTools == ToolNames \ {"export_workbook"}

\* the credential pair is absent: token name or token secret unset
PairAbsent == token_name = None \/ token_value = None

\* every make_api_request made by the last tool call, in order
RECURSIVE ApiEvents(_)
ApiEvents(ops) ==
    IF ops = <<>> THEN <<>> ELSE Head(ops).api \o ApiEvents(Tail(ops))

\* every authenticate made by the last tool call: the direct one of
\* test_connection and the lazy ones of make_api_request
AuthEvents ==
    {call.ops[i].auth : i \in 1..Len(call.ops)}
    \cup {ApiEvents(call.ops)[i].auth : i \in 1..Len(ApiEvents(call.ops))}

\* C1: whatever the tool name, the arguments, the session state and the
\* server's behaviour, handle_call_tool returns a text result, plain or
\* error-flagged, and no exception leaves it.
C1_NeverRaisesPastBoundary ==
    Returned =>
        /\ response.exc = ""
        /\ response.text # ""
        /\ response.isError \in BOOLEAN

\* C1 witness: a TypeError raised inside list_workbooks came back as an
\* error-flagged result.
C1_Witness ==
    /\ call.name = "list_workbooks"
    /\ response.isError
    /\ response.text = "error_executing"
    /\ response.arg = <<"TypeError">>

\* C2 (as claimed): the session holds an auth token if and only if it holds
\* a site UUID.
C2_TokenIffSite == (auth_token # None) <=> (site_uuid # None)

\* C3: test_connection signs in whether or not a token is held; when the
\* sign-in response carries a token, that token is the one held afterwards
\* and the result reports it present.
C3_TestConnectionReauthenticates ==
    (Returned /\ call.name = "test_connection" /\ ~PairAbsent) =>
        /\ Len(call.ops) = 1
        /\ call.ops[1].auth.called
        /\ call.ops[1].auth.sent
        /\ call.ops[1].auth.issued \in Tokens =>
              /\ auth_token = call.ops[1].auth.issued
              /\ response = Reply(FALSE, "connected", <<"Present">>, <<>>, <<>>)

\* C3 witness: a second test_connection in a row, started with the first
\* one's token T1 held, signed in again and now holds T2.
C3_Witness ==
    /\ prev = "test_connection"
    /\ call.name = "test_connection"
    /\ call.pre.auth_token = "T1"
    /\ call.ops[1].auth.sent
    /\ call.ops[1].auth.issued = "T2"
    /\ auth_token = "T2"

\* the response to a catalog request was a failure, empty or malformed: a
\* transport failure, a non-success status, or a body that reached the
\* caller as anything but a well-formed XML document
FailedOrMalformed(a) ==
    /\ a.sent
    /\ \/ a.class \in {"transport", "status"}
       \/ a.ret.kind # "text"
       \/ a.ret.body.t # "xml"

\* the response to the views request was not well-formed XML
ViewsMalformed(a) ==
    /\ a.sent
    /\ a.class = "success"
    /\ \/ a.ret.kind = "text" /\ a.ret.body.t = "garbage"
       \/ a.ret.kind = "json" /\ a.ret.body.truthy

\* C4 (as claimed): on a failed, empty or malformed response list_workbooks
\* and list_data_sources return an empty list and get_workbook_details
\* returns none (for malformed XML, on the workbook or on the views
\* request), and none of them raises.
C4_EmptyResultOnBadResponse ==
    Returned =>
        \A i \in 1..Len(call.ops) :
            LET o == call.ops[i]
            IN /\ (o.op \in {"list_workbooks", "list_data_sources"}
                     /\ FailedOrMalformed(o.api[1]))
                  => o.ret = List(<<>>)
               /\ (o.op = "get_workbook_details"
                     /\ \/ FailedOrMalformed(o.api[1])
                        \/ Len(o.api) = 2 /\ ViewsMalformed(o.api[2]))
                  => o.ret = NoDetail

SameLetter(x, y) == x = y \/ {x, y} \in {{"a", "A"}, {"b", "B"}, {"c", "C"}}

\* two texts are equal when case is ignored
EqualIgnoringCase(a, b) ==
    Len(a) = Len(b) /\ \A i \in 1..Len(a) : SameLetter(a[i], b[i])

\* text t contains q when case is ignored
ContainsIgnoringCase(q, t) ==
    \E k \in 0..(Len(t) - Len(q)) : \A i \in 1..Len(q) : SameLetter(q[i], t[k + i])

ByNameOnly ==
    /\ Returned
    /\ call.name = "get_workbook_details"
    /\ ArgTruthy(call.arguments, "workbook_name")
    /\ ~ArgTruthy(call.arguments, "workbook_id")

\* C5: with a workbook_name and no workbook_id, the detail call is made for
\* the id of the first listed workbook whose name equals the given one
\* ignoring case; when no listed name does, the result is the error-flagged
\* 'not found' text and no detail request is sent.
C5_NameResolution ==
    (ByNameOnly /\ call.ops[1].ret.kind = "list") =>
        LET name == call.arguments["workbook_name"]
            workbooks == call.ops[1].ret.val
            equal == {i \in 1..Len(workbooks) :
                        EqualIgnoringCase(workbooks[i].name, name)}
        IN IF equal = {}
           THEN /\ response = Reply(TRUE, "workbook_not_found", name, <<>>, <<>>)
                /\ Len(call.ops) = 1
                /\ \A k \in 1..Len(ApiEvents(call.ops)) :
                      ApiEvents(call.ops)[k].endpoint.op = "workbooks"
           ELSE \E i \in equal :
                /\ \A j \in equal : i <= j
                /\ Len(call.ops) = 2
                /\ call.ops[2].op = "get_workbook_details"
                /\ call.ops[2].id = workbooks[i].id
                /\ \A k \in 1..Len(call.ops[2].api) :
                      call.ops[2].api[k].endpoint.id = workbooks[i].id

\* C5 witness: "abc" is listed before "Ab"; asked for "AB", the detail
\* call went to the second workbook, whose name is equal ignoring case.
C5_Witness ==
    /\ ByNameOnly
    /\ call.arguments["workbook_name"] = AB
    /\ call.ops[1].ret.kind = "list"
    /\ Len(call.ops[1].ret.val) = 2
    /\ call.ops[1].ret.val[1].name = abc
    /\ call.ops[1].ret.val[2].name = Ab
    /\ Len(call.ops) = 2
    /\ call.ops[2].id = WorkbookId(2)
    /\ response.text = "workbook_details"

\* C6: search_content lists exactly the workbooks, and exactly the data
\* sources, whose name or description contains the query ignoring case, in
\* list order; with no match of either type the result is the plain 'No
\* content found' text.
C6_SearchExactMatches ==
    (/\ Returned
     /\ call.name = "search_content"
     /\ Len(call.ops) = 2
     /\ call.ops[1].ret.kind = "list"
     /\ call.ops[2].ret.kind = "list") =>
        LET query == ArgQuery(call.arguments)
            Wanted(records) ==
                SelectSeq(records,
                          LAMBDA x : \/ ContainsIgnoringCase(query, x.name)
                                     \/ ContainsIgnoringCase(query, x.description))
            workbooks == Wanted(call.ops[1].ret.val)
            data_sources == Wanted(call.ops[2].ret.val)
        IN /\ response.exc = ""
           /\ ~response.isError
           /\ response.items = workbooks
           /\ response.more = data_sources
           /\ response.text =
                 IF workbooks = <<>> /\ data_sources = <<>>
                 THEN "no_content" ELSE "search_results"

\* C6 witness: a workbook found by its description alone, next to a data
\* source found by its name.
C6_Witness ==
    /\ Returned
    /\ call.name = "search_content"
    /\ ArgQuery(call.arguments) = cc
    /\ response.text = "search_results"
    /\ Len(response.items) = 1
    /\ response.items[1].name = ab
    /\ response.items[1].description = cc
    /\ Len(response.more) = 1
    /\ response.more[1].name = Bc

AttrOr(attrs, key, default) == IF key \in DOMAIN attrs THEN attrs[key] ELSE default

\* the name of the first nested element with that tag, 'Unknown' without one
NestedNameOr(children, tag) ==
    LET nested == SelectSeq(children, LAMBDA c : c.tag = tag)
    IN IF nested = <<>> THEN "Unknown" ELSE AttrOr(nested[1].attrs, "name", None)

\* C7: from a well-formed answer list_workbooks returns one record per
\* published workbook, in order, with '' for a missing description, '0' for
\* a missing size and 'Unknown' for a missing project or owner element;
\* list_data_sources does the same for description and project.
C7_RecordsAndDefaults ==
    /\ (/\ Returned
        /\ call.name = "list_workbooks"
        /\ call.ops[1].api[1].ret.kind = "text"
        /\ call.ops[1].api[1].ret.body.root \in ServerDocs(Endpoint("workbooks", NoId)))
       => LET records == call.ops[1].ret.val
          IN /\ call.ops[1].ret.kind = "list"
             /\ Len(records) = Len(catalog.workbooks)
             /\ \A i \in 1..Len(records) :
                   LET w == catalog.workbooks[i]
                   IN records[i] =
                        [id |-> WorkbookId(i),
                         name |-> w.attrs.name,
                         description |-> AttrOr(w.attrs, "description", <<>>),
                         size |-> AttrOr(w.attrs, "size", "0"),
                         createdAt |-> AttrOr(w.attrs, "createdAt", None),
                         updatedAt |-> AttrOr(w.attrs, "updatedAt", None),
                         project |-> NestedNameOr(w.children, "project"),
                         owner |-> NestedNameOr(w.children, "owner")]
    /\ (/\ Returned
        /\ call.name = "list_data_sources"
        /\ call.ops[1].api[1].ret.kind = "text"
        /\ call.ops[1].api[1].ret.body.root \in ServerDocs(Endpoint("datasources", NoId)))
       => LET records == call.ops[1].ret.val
          IN /\ call.ops[1].ret.kind = "list"
             /\ Len(records) = Len(catalog.datasources)
             /\ \A i \in 1..Len(records) :
                   LET d == catalog.datasources[i]
                   IN /\ records[i].name = d.attrs.name
                      /\ records[i].description = AttrOr(d.attrs, "description", <<>>)
                      /\ records[i].project = NestedNameOr(d.children, "project")

\* C7 witness: the site holds one workbook, with a name and nothing else;
\* list_workbooks returned exactly the record with every default.
C7_Witness ==
    /\ Returned
    /\ call.name = "list_workbooks"
    /\ catalog.workbooks = <<[attrs |-> [name |-> Ab], children |-> <<>>,
                             views |-> <<>>]>>
    /\ call.ops[1].ret.val =
          <<[id |-> WorkbookId(1), name |-> Ab, project |-> "Unknown",
             owner |-> "Unknown", size |-> "0", description |-> <<>>,
             createdAt |-> None, updatedAt |-> None]>>
    /\ response.text = "workbooks_found"

\* C8: with the credential pair absent and no token held, authenticate
\* raises the configuration error before anything is sent and leaves token
\* and site UUID alone, and each of the five tools returns an error-flagged
\* result, never a plain 'none found' one.
C8_NoCredentialsIsAnError ==
    (Returned /\ PairAbsent /\ call.pre.auth_token = None
       /\ call.name \in KnownTools) =>
        /\ response.isError
        /\ response.exc = ""
        /\ response.text \notin {"no_workbooks", "no_datasources", "no_content"}
        /\ auth_token = call.pre.auth_token
        /\ site_uuid = call.pre.site_uuid
        /\ \A e \in AuthEvents :
              e.called => (~e.sent /\ e.ret = "raise" /\ e.post = e.pre)
        /\ \A k \in 1..Len(ApiEvents(call.ops)) : ~ApiEvents(call.ops)[k].sent

\* C8 witness: search_content without the token secret ended in the
\* configuration error, nothing sent.
C8_Witness ==
    /\ Returned
    /\ token_name # None
    /\ token_value = None
    /\ call.name = "search_content"
    /\ Len(call.ops) = 1
    /\ call.ops[1].api[1].auth.ret = "raise"
    /\ ~call.ops[1].api[1].sent
    /\ response = Reply(TRUE, "error_executing", <<"ValueError">>, <<>>, <<>>)

\* C9 (as claimed): in every call of make_api_request a sign-in is sent if
\* and only if no token is held when the call starts.
C9_SigninSentIffNoToken ==
    Returned =>
        \A k \in 1..Len(ApiEvents(call.ops)) :
            ApiEvents(call.ops)[k].auth.sent <=> ~ApiEvents(call.ops)[k].held

\* C9 (amended): in every call of make_api_request authenticate is called if
\* and only if no token is held when the call starts, and its sign-in is sent
\* if and only if, besides, the credential pair is configured; the catalog
\* request carries what that sign-in left; the catalog response, whatever
\* its status, changes neither token nor site UUID; and each call starts
\* from the session the one before left.
C9_LazySignin ==
    Returned =>
        \A k \in 1..Len(ApiEvents(call.ops)) :
            LET a == ApiEvents(call.ops)[k]
            IN /\ a.held <=> (a.auth.pre.auth_token \in Tokens)
               /\ a.auth.called <=> ~a.held
               /\ a.auth.sent <=> (~a.held /\ ~PairAbsent)
               /\ ~a.auth.called => a.auth.post = a.auth.pre
               /\ a.sent <=> (a.auth.ret # "raise")
               /\ a.sent => /\ a.hdrToken = a.auth.post.auth_token
                            /\ a.urlSite = a.auth.post.site_uuid
               /\ a.post = a.auth.post
               /\ a.auth.pre = IF k = 1 THEN call.pre
                               ELSE ApiEvents(call.ops)[k - 1].post

\* C9 witness: list_workbooks started without a token, signed in and got
\* T1, was answered with a non-success status, and T1 is still held.
C9_Witness ==
    /\ Returned
    /\ call.name = "list_workbooks"
    /\ call.pre.auth_token = None
    /\ call.ops[1].api[1].auth.sent
    /\ call.ops[1].api[1].auth.issued = "T1"
    /\ call.ops[1].api[1].sent
    /\ call.ops[1].api[1].hdrToken = "T1"
    /\ call.ops[1].api[1].class = "status"
    /\ auth_token = "T1"

\* C10: a sign-in answered with a status other than 200, a transport
\* failure or a 200 body that cannot be parsed makes authenticate return
\* False, not raise, and leave auth token and site UUID as they were.
C10_FailedSigninChangesNothing ==
    Returned =>
        \A e \in AuthEvents :
            (e.sent /\ e.class \in {"transport", "status", "unparsable"}) =>
                /\ e.ret = "False"
                /\ e.post = e.pre

\* C10 witness: test_connection with T1 and S1 held got an unparsable 200
\* body; the call failed and T1 and S1 are still held.
C10_Witness ==
    /\ Returned
    /\ call.name = "test_connection"
    /\ call.pre = Sess("T1", "S1")
    /\ call.ops[1].auth.sent
    /\ call.ops[1].auth.class = "unparsable"
    /\ response.text = "connect_failed"
    /\ auth_token = "T1"
    /\ site_uuid = "S1"

\* C11 (as claimed): every catalog request that make_api_request sends
\* carries a held auth token in its header and a held site UUID in its
\* URL, also in a call whose lazy sign-in failed or stored only part of
\* the credentials.
C11_RequestsCarryTokenAndSite ==
    Returned =>
        \A k \in 1..Len(ApiEvents(call.ops)) :
            ApiEvents(call.ops)[k].sent =>
                /\ Truthy(ApiEvents(call.ops)[k].hdrToken)
                /\ Truthy(ApiEvents(call.ops)[k].urlSite)

====
